---- MODULE Spec2Model ----
(***************************************************************************)
(* Model of the PSGC lookup service of main.py: the table loaded once by   *)
(* load_data, the path resolver build_full_path and the five query         *)
(* handlers.  Strings whose characters the code inspects (codes, names,    *)
(* paths, queries) are sequences of one-character strings; level tags,     *)
(* which the code only compares for equality, are TLA+ strings.            *)
(***************************************************************************)
EXTENDS Integers, Sequences, FiniteSets, TLC

VARIABLES df, code_to_name, code_to_level, request, response

data == <<df, code_to_name, code_to_level>>
vars == <<df, code_to_name, code_to_level, request, response>>

(***************************************************************************)
(* Bounds and input sets                                                   *)
(***************************************************************************)
MaxRecords == 3

\* The rows a dataset is drawn from.  Rows 1-3 are the records of the
\* specification's concrete scenario; rows 4-6 follow the zero-padded PSGC
\* layout (RR PPP MM BBB); rows 7-9 are 10-character codes that are not
\* zero-padded below their own level (row 7 shares its first 5 characters
\* with the Region of row 1, row 8 its first 7 with the Province of row 5,
\* row 9 its first 7 with the Municipality of row 6).
Pool ==
  { [code  |-> <<"1","3","0","0","0","0","0","0","0","0">>,
     name  |-> <<"N","a","t","i","o","n","a","l"," ","C","a","p","i","t","a","l"," ","R","e","g","i","o","n">>,
     level |-> "Reg"],
    [code  |-> <<"1","3","8","0","6","0","0","0","0","0">>,
     name  |-> <<"Q","u","e","z","o","n"," ","C","i","t","y">>,
     level |-> "City"],
    [code  |-> <<"1","3","8","0","6","0","1","0","0","0">>,
     name  |-> <<"B","a","r","a","n","g","a","y"," ","X">>,
     level |-> "Bgy"],
    [code  |-> <<"1","3","8","0","6","0","0","0","0","1">>,
     name  |-> <<"A","l","i","c","i","a">>,
     level |-> "Bgy"],
    [code  |-> <<"0","1","0","2","8","0","0","0","0","0">>,
     name  |-> <<"I","l","o","c","o","s"," ","N","o","r","t","e">>,
     level |-> "Prov"],
    [code  |-> <<"0","1","0","2","8","0","1","0","0","0">>,
     name  |-> <<"A","d","a","m","s">>,
     level |-> "Mun"],
    [code  |-> <<"1","3","0","0","0","0","0","1","0","0">>,
     name  |-> <<"R","i","z","a","l">>,
     level |-> "Prov"],
    [code  |-> <<"0","1","0","2","8","0","0","1","0","0">>,
     name  |-> <<"L","a","o","a","g">>,
     level |-> "City"],
    [code  |-> <<"0","1","0","2","8","0","1","2","0","0">>,
     name  |-> <<"B","a","c","a","r","r","a">>,
     level |-> "Mun"] }

\* Data model of the loaded table: codes are unique (names of the pool are
\* non-empty and codes have 10 characters).  A dataset has at least one row.
UniqueCodes(rows) ==
  \A i, j \in DOMAIN rows : rows[i].code = rows[j].code => i = j

Datasets ==
  { rows \in UNION { [1..n -> Pool] : n \in 1..MaxRecords } : UniqueCodes(rows) }

\* An optional query parameter: absent (Query(None)) or a string.
NoArg == [given |-> FALSE, value |-> <<>>]

Arg(v) == [given |-> TRUE, value |-> v]

\* Parent codes a client passes: absent, empty, shorter than a prefix, the
\* code of a Region that has no record, and the codes of rows 1, 2, 5 and 6.
CodeInputs ==
  { NoArg, Arg(<<>>), Arg(<<"1">>),
    Arg(<<"0","1","0","0","0","0","0","0","0","0">>),
    Arg(<<"1","3","0","0","0","0","0","0","0","0">>),
    Arg(<<"1","3","8","0","6","0","0","0","0","0">>),
    Arg(<<"0","1","0","2","8","0","0","0","0","0">>),
    Arg(<<"0","1","0","2","8","0","1","0","0","0">>) }

\* Level tags a client passes to search; "Dist" is the tag of no record.
LevelInputs == {"Reg", "Prov", "City", "Mun", "Bgy", "Dist"}

\* Query strings a client passes to search: the empty string, letters in
\* either case, and strings holding "." or "(", the characters to which the
\* re module gives a meaning.
Queries ==
  { <<>>, <<"a">>, <<"A">>, <<"o","n">>, <<"O","n">>, <<"O","N">>,
    <<".">>, <<"c",".","a">>, <<"C",".","A">>, <<"(">>, <<"a","(">> }

(***************************************************************************)
(* Strings                                                                 *)
(***************************************************************************)
\* s[:n]
Take(s, n) == SubSeq(s, 1, IF n < Len(s) THEN n ELSE Len(s))

\* s.startswith(p)
startswith(s, p) == Len(p) <= Len(s) /\ SubSeq(s, 1, Len(p)) = p

UpperCase == <<"A","B","C","D","E","F","G","H","I","J","K","L","M",
               "N","O","P","Q","R","S","T","U","V","W","X","Y","Z">>

LowerCase == <<"a","b","c","d","e","f","g","h","i","j","k","l","m",
               "n","o","p","q","r","s","t","u","v","w","x","y","z">>

LowerChar(c) ==
  IF \E i \in DOMAIN UpperCase : UpperCase[i] = c
    THEN LowerCase[CHOOSE i \in DOMAIN UpperCase : UpperCase[i] = c]
    ELSE c

\* str.lower()
lower(s) == [i \in 1..Len(s) |-> LowerChar(s[i])]

Separator == <<" ", ">", " ">>

\* " > ".join(parts)
RECURSIVE join(_)
join(parts) ==
  IF Len(parts) = 0 THEN <<>>
  ELSE IF Len(parts) = 1 THEN parts[1]
  ELSE parts[1] \o Separator \o join(Tail(parts))

(***************************************************************************)
(* load_data: the table and the two insertion-ordered dicts built from it  *)
(***************************************************************************)
\* d[k] = v on an insertion-ordered dict: a present key keeps its place and
\* takes the new value, a new key goes last.
DictPut(d, k, v) ==
  IF \E i \in DOMAIN d : d[i].key = k
    THEN [i \in DOMAIN d |-> IF d[i].key = k THEN [key |-> k, value |-> v] ELSE d[i]]
    ELSE Append(d, [key |-> k, value |-> v])

\* dict(zip(keys, values))
RECURSIVE DictZip(_, _, _)
DictZip(d, keys, values) ==
  IF Len(keys) = 0 THEN d
  ELSE DictZip(DictPut(d, keys[1], values[1]), Tail(keys), Tail(values))

Column(rows, f) == [i \in DOMAIN rows |-> rows[i][f]]

load_code_to_name(rows) == DictZip(<<>>, Column(rows, "code"), Column(rows, "name"))

load_code_to_level(rows) == DictZip(<<>>, Column(rows, "code"), Column(rows, "level"))

\* d.get(k): the value as a one-element sequence, <<>> for None
DictGet(d, k) ==
  IF \E i \in DOMAIN d : d[i].key = k
    THEN << d[CHOOSE i \in DOMAIN d : d[i].key = k].value >>
    ELSE <<>>

(***************************************************************************)
(* build_full_path                                                         *)
(***************************************************************************)
RegionPrefixLen == 2

ProvincePrefixLen == 5

CityMunPrefixLen == 7

\* next((name for code, name in code_to_name.items()
\*       if code.startswith(prefix) and code_to_level[code] in levels), None)
\* as a sequence: <<name>> for the first match in dict order, <<>> for None.
FirstName(prefix, levels) ==
  LET hits == { i \in DOMAIN code_to_name :
                  /\ startswith(code_to_name[i].key, prefix)
                  /\ DictGet(code_to_level, code_to_name[i].key)[1] \in levels }
  IN IF hits = {} THEN <<>>
     ELSE << code_to_name[CHOOSE i \in hits : \A j \in hits : i <= j].value >>

\* "if region:" -- appended only when found and not the empty string
Truthy(found) == IF found # <<>> /\ found[1] # <<>> THEN found ELSE <<>>

\* Variant: the level tag compared against is misspelt, so a Barangay's own
\* name is never appended.
OwnBarangayName_Misspelt(psgc_code) ==
  IF DictGet(code_to_level, psgc_code) = <<"Brgy">>
    THEN DictGet(code_to_name, psgc_code)
    ELSE <<>>

OwnBarangayName(psgc_code) ==
  IF DictGet(code_to_level, psgc_code) = <<"Bgy">>
    THEN DictGet(code_to_name, psgc_code)
    ELSE <<>>

\* Variants of path_parts that slice the City/Municipality prefix at another
\* length: 6 (the boundary of the {2,4,6} split), 5 (the Province boundary)
\* and 2 (the Region boundary).
path_parts_CityPrefix6(psgc_code) ==
     Truthy(FirstName(Take(psgc_code, RegionPrefixLen), {"Reg"}))
  \o Truthy(FirstName(Take(psgc_code, ProvincePrefixLen), {"Prov"}))
  \o Truthy(FirstName(Take(psgc_code, 6), {"City", "Mun"}))
  \o OwnBarangayName(psgc_code)

path_parts_CityPrefix5(psgc_code) ==
     Truthy(FirstName(Take(psgc_code, RegionPrefixLen), {"Reg"}))
  \o Truthy(FirstName(Take(psgc_code, ProvincePrefixLen), {"Prov"}))
  \o Truthy(FirstName(Take(psgc_code, ProvincePrefixLen), {"City", "Mun"}))
  \o OwnBarangayName(psgc_code)

path_parts_CityPrefix2(psgc_code) ==
     Truthy(FirstName(Take(psgc_code, RegionPrefixLen), {"Reg"}))
  \o Truthy(FirstName(Take(psgc_code, ProvincePrefixLen), {"Prov"}))
  \o Truthy(FirstName(Take(psgc_code, RegionPrefixLen), {"City", "Mun"}))
  \o OwnBarangayName(psgc_code)

path_parts(psgc_code) ==
     Truthy(FirstName(Take(psgc_code, RegionPrefixLen), {"Reg"}))
  \o Truthy(FirstName(Take(psgc_code, ProvincePrefixLen), {"Prov"}))
  \o Truthy(FirstName(Take(psgc_code, CityMunPrefixLen), {"City", "Mun"}))
  \o OwnBarangayName(psgc_code)

build_full_path(psgc_code) == join(path_parts(psgc_code))

(***************************************************************************)
(* Query handlers                                                          *)
(***************************************************************************)
Ok(rows) == [status |-> "ok", rows |-> rows]

Error == [status |-> "error", rows |-> <<>>]

\* frame[mask][["10-digit PSGC", "Name"]] with the full_path column added
WithPaths(rows) ==
  [i \in DOMAIN rows |->
     [code |-> rows[i].code, name |-> rows[i].name,
      full_path |-> build_full_path(rows[i].code)]]

get_regions ==
  LET regions == SelectSeq(df, LAMBDA r : r.level = "Reg")
  IN Ok([i \in DOMAIN regions |->
           [code |-> regions[i].code, name |-> regions[i].name,
            full_path |-> regions[i].name]])

FilterRegionLen == 2

FilterProvinceLen == 5

FilterMunicipalityLen == 7

\* "if region_code:" -- given and not empty
Given(arg) == arg.given /\ arg.value # <<>>

\* Variant: the filtered branch leaves out the level mask.
get_provinces_NoLevelMask(region_code) ==
  Ok(WithPaths(
    IF Given(region_code)
      THEN SelectSeq(df, LAMBDA r :
             startswith(r.code, Take(region_code.value, FilterRegionLen)))
      ELSE SelectSeq(df, LAMBDA r : r.level = "Prov")))

get_provinces(region_code) ==
  Ok(WithPaths(
    IF Given(region_code)
      THEN SelectSeq(df, LAMBDA r :
             r.level = "Prov" /\ startswith(r.code, Take(region_code.value, FilterRegionLen)))
      ELSE SelectSeq(df, LAMBDA r : r.level = "Prov")))

get_cities_municipalities(province_code) ==
  Ok(WithPaths(
    IF Given(province_code)
      THEN SelectSeq(df, LAMBDA r :
             r.level \in {"City", "Mun"}
             /\ startswith(r.code, Take(province_code.value, FilterProvinceLen)))
      ELSE SelectSeq(df, LAMBDA r : r.level \in {"City", "Mun"})))

\* Variant: the municipality filter slices at the Province boundary.
get_barangays_Prefix5(municipality_code) ==
  Ok(WithPaths(
    IF Given(municipality_code)
      THEN SelectSeq(df, LAMBDA r :
             r.level = "Bgy"
             /\ startswith(r.code, Take(municipality_code.value, FilterProvinceLen)))
      ELSE SelectSeq(df, LAMBDA r : r.level = "Bgy")))

get_barangays(municipality_code) ==
  Ok(WithPaths(
    IF Given(municipality_code)
      THEN SelectSeq(df, LAMBDA r :
             r.level = "Bgy"
             /\ startswith(r.code, Take(municipality_code.value, FilterMunicipalityLen)))
      ELSE SelectSeq(df, LAMBDA r : r.level = "Bgy")))

\* Series.str.contains(pat) compiles pat as a regular expression.  Over the
\* characters of Queries: a letter matches itself, "." matches any character, and a
\* pattern holding "(" has an unterminated group, which re.compile rejects.
PatternCompiles(pat) == \A i \in DOMAIN pat : pat[i] # "("

PatternMatchesAt(pat, s, k) ==
  \A i \in DOMAIN pat : pat[i] = "." \/ pat[i] = s[k + i]

\* re.search(pat, s) is not None
PatternFound(pat, s) ==
  \E k \in 0..(Len(s) - Len(pat)) : PatternMatchesAt(pat, s, k)

\* Variant: the query is used as typed.
q_lower_AsTyped(q) == q

q_lower(q) == lower(q)

search_locations(level, q) ==
  IF ~PatternCompiles(q_lower(q)) THEN Error
  ELSE Ok(WithPaths(SelectSeq(df, LAMBDA r :
            r.level = level /\ PatternFound(q_lower(q), lower(r.name)))))

(***************************************************************************)
(* The state machine                                                       *)
(***************************************************************************)
Idle == [op |-> "idle", code |-> NoArg, level |-> "", q |-> <<>>]

NoResponse == [status |-> "none", rows |-> <<>>]

Init ==
  /\ df \in Datasets
  /\ code_to_name = load_code_to_name(df)
  /\ code_to_level = load_code_to_level(df)
  /\ request = Idle
  /\ response = NoResponse

\* Variant: the filtered frame is bound to the module-level df.
GetRegions_Rebinding ==
  /\ request = Idle
  /\ request' = [Idle EXCEPT !.op = "get_regions"]
  /\ response' = get_regions
  /\ df' = SelectSeq(df, LAMBDA r : r.level = "Reg")
  /\ UNCHANGED <<code_to_name, code_to_level>>

GetRegions ==
  /\ request = Idle
  /\ request' = [Idle EXCEPT !.op = "get_regions"]
  /\ response' = get_regions
  /\ UNCHANGED data

GetProvinces ==
  \E region_code \in CodeInputs :
    /\ request = Idle
    /\ request' = [Idle EXCEPT !.op = "get_provinces", !.code = region_code]
    /\ response' = get_provinces(region_code)
    /\ UNCHANGED data

GetCitiesMunicipalities ==
  \E province_code \in CodeInputs :
    /\ request = Idle
    /\ request' = [Idle EXCEPT !.op = "get_cities_municipalities", !.code = province_code]
    /\ response' = get_cities_municipalities(province_code)
    /\ UNCHANGED data

GetBarangays ==
  \E municipality_code \in CodeInputs :
    /\ request = Idle
    /\ request' = [Idle EXCEPT !.op = "get_barangays", !.code = municipality_code]
    /\ response' = get_barangays(municipality_code)
    /\ UNCHANGED data

SearchLocations ==
  \E level \in LevelInputs, q \in Queries :
    /\ request = Idle
    /\ request' = [Idle EXCEPT !.op = "search", !.level = level, !.q = q]
    /\ response' = search_locations(level, q)
    /\ UNCHANGED data

\* The handler has returned; its result frame is gone and the next request
\* can be served.
Return ==
  /\ request # Idle
  /\ request' = Idle
  /\ response' = NoResponse
  /\ UNCHANGED data

Next ==
  \/ GetRegions
  \/ GetProvinces
  \/ GetCitiesMunicipalities
  \/ GetBarangays
  \/ SearchLocations
  \/ Return

Spec == Init /\ [][Next]_vars

(***************************************************************************)
(* Vocabulary of the properties                                            *)
(***************************************************************************)
SeparatorAt(s, k) == k + 2 <= Len(s) /\ SubSeq(s, k, k + 2) = Separator

\* path.split(" > "): the segments of a path
RECURSIVE Segments(_)
Segments(s) ==
  IF \E k \in 1..Len(s) : SeparatorAt(s, k)
    THEN LET k == CHOOSE k \in 1..Len(s) :
                    SeparatorAt(s, k) /\ \A j \in 1..(k - 1) : ~SeparatorAt(s, j)
         IN << SubSeq(s, 1, k - 1) >> \o Segments(SubSeq(s, k + 3, Len(s)))
    ELSE << s >>

Rows == { df[i] : i \in DOMAIN df }

CityMun == {"City", "Mun"}

\* Hierarchy invariant of the data model: at most one Region per 2-character
\* prefix, one Province per 5-character prefix and one City/Municipality per
\* 7-character prefix.
HierarchyInvariant ==
  \A r, t \in Rows :
    r # t =>
      /\ ~(r.level = "Reg" /\ t.level = "Reg" /\ Take(r.code, 2) = Take(t.code, 2))
      /\ ~(r.level = "Prov" /\ t.level = "Prov" /\ Take(r.code, 5) = Take(t.code, 5))
      /\ ~(r.level \in CityMun /\ t.level \in CityMun /\ Take(r.code, 7) = Take(t.code, 7))

\* The records of the given levels whose code begins with the first n
\* characters of code.
Sharing(code, n, levels) ==
  { t \in Rows : t.level \in levels /\ startswith(t.code, Take(code, n)) }

\* a is b with some elements left out, order kept
RECURSIVE IsSubSeq(_, _)
IsSubSeq(a, b) ==
  IF Len(a) = 0 THEN TRUE
  ELSE IF Len(b) = 0 THEN FALSE
  ELSE IF a[1] = b[1] THEN IsSubSeq(Tail(a), Tail(b))
  ELSE IsSubSeq(a, Tail(b))

\* p occurs in s as a literal substring
Contains(s, p) ==
  \E k \in 0..(Len(s) - Len(p)) : SubSeq(s, k + 1, k + Len(p)) = p

IsLetter(c) == c # LowerChar(c) \/ \E i \in DOMAIN LowerCase : LowerCase[i] = c

DiffersOnlyInCase(q1, q2) ==
  /\ Len(q1) = Len(q2)
  /\ \A i \in DOMAIN q1 :
       \/ q1[i] = q2[i]
       \/ IsLetter(q1[i]) /\ IsLetter(q2[i]) /\ LowerChar(q1[i]) = LowerChar(q2[i])

ResponseRows == { response.rows[i] : i \in DOMAIN response.rows }

\* An unfiltered listing has a row for every record of the levels.
ListsAll(levels) ==
  \A r \in Rows :
    r.level \in levels => \E row \in ResponseRows : row.code = r.code /\ row.name = r.name

(***************************************************************************)
(* C1: the concrete scenario                                               *)
(***************************************************************************)
ScenarioBarangay == <<"1","3","8","0","6","0","1","0","0","0">>

ScenarioLoaded ==
  /\ Len(df) = 3
  /\ { r.code : r \in Rows } =
       { <<"1","3","0","0","0","0","0","0","0","0">>,
         <<"1","3","8","0","6","0","0","0","0","0">>,
         ScenarioBarangay }

RegionBarangayPath ==
  <<"N","a","t","i","o","n","a","l"," ","C","a","p","i","t","a","l"," ","R","e","g","i","o","n",
    " ",">"," ","B","a","r","a","n","g","a","y"," ","X">>

RegionCityBarangayPath ==
  <<"N","a","t","i","o","n","a","l"," ","C","a","p","i","t","a","l"," ","R","e","g","i","o","n",
    " ",">"," ","Q","u","e","z","o","n"," ","C","i","t","y",
    " ",">"," ","B","a","r","a","n","g","a","y"," ","X">>

\* C1 as stated: with exactly the three scenario records loaded,
\* build_full_path("1380601000") is
\* "National Capital Region > Quezon City > Barangay X".
C1_ScenarioPathThroughCity ==
  ScenarioLoaded => build_full_path(ScenarioBarangay) = RegionCityBarangayPath

\* C1 amended: with exactly the three scenario records loaded,
\* build_full_path("1380601000") is "National Capital Region > Barangay X":
\* the City's code does not begin with the Barangay's 7-character prefix
\* "1380601", so the City level is skipped.
C1_ScenarioPathSkipsCity ==
  ScenarioLoaded => build_full_path(ScenarioBarangay) = RegionBarangayPath

C1_Witness ==
  /\ ScenarioLoaded
  /\ request.op = "get_barangays"
  /\ \E row \in ResponseRows :
       row.code = ScenarioBarangay /\ row.full_path = RegionBarangayPath

(***************************************************************************)
(* C2: the path of a Region                                                *)
(***************************************************************************)
RegionPathIsOwnName(row) ==
  /\ build_full_path(row.code) = row.name
  /\ row.full_path = build_full_path(row.code)

\* C2 as stated: in every dataset that satisfies the data model (unique
\* 10-character codes, non-empty names, hierarchy invariant) get_regions lists
\* every Region record, and for each of them the path build_full_path gives
\* is exactly its own name and is the full_path listed.
C2_RegionPathIsOwnName ==
  (HierarchyInvariant /\ request.op = "get_regions") =>
    /\ ListsAll({"Reg"})
    /\ \A row \in ResponseRows : RegionPathIsOwnName(row)

\* C2 amended: the same, for every Region record whose first 5 characters
\* begin no Province record's code and whose first 7 characters begin no
\* City/Municipality record's code.
C2_RegionPathIsOwnNameIfNoLowerShares ==
  (HierarchyInvariant /\ request.op = "get_regions") =>
    /\ ListsAll({"Reg"})
    /\ \A row \in ResponseRows :
         (Sharing(row.code, 5, {"Prov"}) = {} /\ Sharing(row.code, 7, CityMun) = {})
           => RegionPathIsOwnName(row)

\* A Region listed together with a City of the same region.
C2_Witness ==
  /\ HierarchyInvariant
  /\ request.op = "get_regions"
  /\ \E row \in ResponseRows :
       /\ RegionPathIsOwnName(row)
       /\ Sharing(row.code, 2, CityMun) # {}
       /\ Sharing(row.code, 7, CityMun) = {}
       /\ Sharing(row.code, 5, {"Prov"}) = {}

(***************************************************************************)
(* C3: the path of a Barangay                                              *)
(***************************************************************************)
\* C3: get_barangays without a filter lists every Barangay record, and for
\* every Barangay listed the last segment of its path is its own name and,
\* whenever a Region record shares the code's 2-character prefix, the first
\* segment is the name of such a Region record.
C3_BarangayPathEnds ==
  request.op = "get_barangays" =>
    /\ ~Given(request.code) => ListsAll({"Bgy"})
    /\ \A row \in ResponseRows :
         LET segs == Segments(row.full_path)
         IN /\ row.full_path = build_full_path(row.code)
            /\ segs[Len(segs)] = row.name
            /\ Sharing(row.code, 2, {"Reg"}) # {}
                 => \E t \in Sharing(row.code, 2, {"Reg"}) : segs[1] = t.name

C3_Witness ==
  /\ request.op = "get_barangays"
  /\ \E row \in ResponseRows :
       LET segs == Segments(row.full_path)
       IN /\ Len(segs) = 3
          /\ segs[3] = row.name
          /\ \E t \in Sharing(row.code, 2, {"Reg"}) : segs[1] = t.name

(***************************************************************************)
(* C4: the region filter of get_provinces                                  *)
(***************************************************************************)
\* C4: the rows get_provinces returns for a region_code are rows of the
\* unfiltered listing in the same relative order, each is a Province record,
\* and each code begins with the first 2 characters of region_code.
C4_ProvincesFiltered ==
  request.op = "get_provinces" =>
    /\ response.status = "ok"
    /\ IsSubSeq(response.rows, get_provinces(NoArg).rows)
    /\ \A row \in ResponseRows :
         /\ \E r \in Rows : r.code = row.code /\ r.name = row.name /\ r.level = "Prov"
         /\ Given(request.code) => startswith(row.code, Take(request.code.value, 2))

C4_Witness ==
  /\ request.op = "get_provinces"
  /\ Len(request.code.value) = 10
  /\ Len(response.rows) = 1
  /\ Len(get_provinces(NoArg).rows) = 2

(***************************************************************************)
(* C5, C6, C7: search                                                      *)
(***************************************************************************)
LiteralSearch(level, q) ==
  Ok(WithPaths(SelectSeq(df, LAMBDA r :
       r.level = level /\ Contains(lower(r.name), lower(q)))))

\* C5 as stated: search returns exactly the records at the level whose name
\* contains the query as a literal substring when case is ignored, in dataset
\* order.
C5_SearchIsLiteralSubstring ==
  request.op = "search" => response = LiteralSearch(request.level, request.q)

\* C6: two queries that differ only in letter case give identical results.
C6_SearchIgnoresQueryCase ==
  request.op = "search" =>
    \A q2 \in Queries :
      DiffersOnlyInCase(request.q, q2)
        => search_locations(request.level, q2) = response

C6_Witness ==
  /\ request.op = "search"
  /\ request.q = <<"O","N">>
  /\ response.status = "ok"
  /\ response.rows # <<>>
  /\ search_locations(request.level, <<"o","n">>) = response

\* C7 as stated: search with a level that tags no record of the dataset
\* returns an empty sequence and raises no error, for every query.
C7_UnknownLevelIsEmpty ==
  ( /\ request.op = "search"
    /\ \A r \in Rows : r.level # request.level )
  => response = Ok(<<>>)

(***************************************************************************)
(* C8: queries leave the loaded data alone                                 *)
(***************************************************************************)
Replay(req) ==
  CASE req.op = "get_regions" -> get_regions
    [] req.op = "get_provinces" -> get_provinces(req.code)
    [] req.op = "get_cities_municipalities" -> get_cities_municipalities(req.code)
    [] req.op = "get_barangays" -> get_barangays(req.code)
    [] req.op = "search" -> search_locations(req.level, req.q)
    [] OTHER -> NoResponse

NameOf(S) == IF S = {} THEN <<>> ELSE << (CHOOSE t \in S : TRUE).name >>

\* The names from Region down to the Province, City or Municipality record r:
\* the Region sharing r's 2-character prefix if there is one, for a City or
\* Municipality the Province sharing its 5-character prefix if there is one,
\* then r itself -- and nothing from a lower level.
ExpectedSegments(r) ==
     NameOf(Sharing(r.code, 2, {"Reg"}))
  \o (IF r.level \in CityMun THEN NameOf(Sharing(r.code, 5, {"Prov"})) ELSE <<>>)
  \o << r.name >>

PathRunsDownToRecord(r, path) == Segments(path) = ExpectedSegments(r)

ListsProvincesOrCities ==
  request.op \in {"get_provinces", "get_cities_municipalities"}

ListedLevels == IF request.op = "get_provinces" THEN {"Prov"} ELSE CityMun

\* C9 as stated (under the hierarchy invariant of the data model):
\* get_provinces and get_cities_municipalities without a filter list every
\* Province, City and Municipality record, and the path of each record listed
\* is the names of its matching Region and Province, where there are any,
\* followed by the record's own name: it ends with the record's own name,
\* holds nothing from a lower level, and skips an ancestor level that has no
\* matching record.
C9_PathRunsDownToRecord ==
  (HierarchyInvariant /\ ListsProvincesOrCities) =>
    /\ ~Given(request.code) => ListsAll(ListedLevels)
    /\ \A row \in ResponseRows :
         \A r \in Rows : r.code = row.code => PathRunsDownToRecord(r, row.full_path)

\* C9 amended: the same, for every City or Municipality record and for every
\* Province record whose first 7 characters begin no City/Municipality
\* record's code.
C9_PathRunsDownToRecordIfNoLowerShares ==
  (HierarchyInvariant /\ ListsProvincesOrCities) =>
    /\ ~Given(request.code) => ListsAll(ListedLevels)
    /\ \A row \in ResponseRows :
         \A r \in Rows :
           ( /\ r.code = row.code
             /\ r.level = "Prov" => Sharing(r.code, 7, CityMun) = {} )
           => PathRunsDownToRecord(r, row.full_path)

\* A Municipality listed with its Province but without a Region: the missing
\* level is skipped.
C9_Witness ==
  /\ HierarchyInvariant
  /\ request.op = "get_cities_municipalities"
  /\ \E row \in ResponseRows :
       LET segs == Segments(row.full_path)
       IN /\ Len(segs) = 2
          /\ segs[2] = row.name
          /\ Sharing(row.code, 2, {"Reg"}) = {}
          /\ \E t \in Sharing(row.code, 5, {"Prov"}) :
               segs[1] = t.name /\ Sharing(t.code, 7, CityMun) = {}

(***************************************************************************)
(* C10: the parent filter agrees with the resolved path                    *)
(***************************************************************************)
ParentIsSegmentBeforeOwn(row, parent) ==
  LET segs == Segments(row.full_path)
  IN /\ Len(segs) >= 2
     /\ segs[Len(segs)] = row.name
     /\ segs[Len(segs) - 1] = parent.name

\* C10: under the hierarchy invariant, every row get_barangays returns for
\* the code of a City/Municipality record m is a Barangay whose path has m's
\* name right before its own name; every row get_cities_municipalities
\* returns for the code of a Province record p has p's name right before its
\* own name.
C10_FilterAgreesWithPath ==
  HierarchyInvariant =>
    /\ request.op = "get_barangays" =>
         \A m \in Rows :
           (m.level \in CityMun /\ request.code = Arg(m.code)) =>
             \A row \in ResponseRows :
               /\ \E b \in Rows : b.code = row.code /\ b.name = row.name /\ b.level = "Bgy"
               /\ ParentIsSegmentBeforeOwn(row, m)
    /\ request.op = "get_cities_municipalities" =>
         \A p \in Rows :
           (p.level = "Prov" /\ request.code = Arg(p.code)) =>
             \A row \in ResponseRows : ParentIsSegmentBeforeOwn(row, p)

C10_Witness ==
  /\ HierarchyInvariant
  /\ request.op = "get_barangays"
  /\ \E m \in Rows :
       /\ m.level \in CityMun
       /\ request.code = Arg(m.code)
       /\ \E row \in ResponseRows : ParentIsSegmentBeforeOwn(row, m)
  /\ Len(response.rows) < Len(get_barangays(NoArg).rows)

====
